---- MODULE Spec2Model ----
(***************************************************************************)
(* Model of the parcel store of go-db-sql-final (src/parcel.go).           *)
(*                                                                         *)
(* The store is a stateless gateway to one table, parcel.  Every method    *)
(* issues one statement through database/sql; Add then reads the generated *)
(* identifier from the statement's sql.Result.  Several callers share the  *)
(* store, so another caller's statement may run between the INSERT of Add  *)
(* and the moment Add returns.                                             *)
(***************************************************************************)
EXTENDS Integers, Sequences, FiniteSets, TLC

\* ---------------------------------------------------------------- bounds
\* Number of rows the table may ever receive (cap of the generated number).
MaxNumber == 2
\* Number of concurrent callers of the store.
NumCallers == 2

Callers == 1..NumCallers
Numbers == 1..MaxNumber

\* ------------------------------------------------------- values of fields
ParcelStatusRegistered == "registered"
ParcelStatusSent == "sent"
ParcelStatusDelivered == "delivered"

Statuses == {ParcelStatusRegistered, ParcelStatusSent, ParcelStatusDelivered}
Clients == {1000, 2000}
Addresses == {"test", "new test address"}
CreatedAts == {"2024-01-01T00:00:00Z"}

\* The Parcel struct; Number is ignored by Add.
Parcel == [number : {0}, client : Clients, status : Statuses,
           address : Addresses, created_at : CreatedAts]

\* Parcel{} of Get: what Get returns next to an error.
ZeroParcel == [number |-> 0, client |-> 0, status |-> "", address |-> "",
               created_at |-> ""]

\* ------------------------------------------------------------ error values
Nil == "nil"
ErrNoRows == "sql: no rows in result set"
DbErr == "storage failure"

\* ------------------------------------------------------------------ state
VARIABLES
    table,  \* rows of table parcel: a set of records, field number is the key
    seq,    \* largest number the table has generated so far
    pc,     \* pc[c]: "idle", or "add" between Add's INSERT and its return
    res,    \* res[c]: the sql.Result of the INSERT caller c has executed
    ret,    \* the call step taken last: operation, arguments, return values
    movedAway, \* history: the numbers of the rows that SetStatus has ever taken
               \* out of status registered
    stmts,  \* storage statements issued by the call that took the last step
    cursors \* row cursors (sql.Rows) that are open and not yet closed

vars == <<table, seq, pc, res, ret, movedAway, stmts, cursors>>

\* sql.Result of a statement.
Result(id, n) == [lastInsertId |-> id, rowsAffected |-> n]

\* Record of a call step.  failed: the storage call of the step failed.
Call(op, n, arg, val, err, failed, affected) ==
    [op |-> op, number |-> n, arg |-> arg, val |-> val,
     err |-> err, failed |-> failed, affected |-> affected]

\* ------------------------------------------------------------- statements
\* The number the table generates for the next inserted row.
NextNumber(s) == s + 1

\* Faulty INSERT: writes the initial status instead of the parcel's status.
InsertRowFixedStatus(t, s, p) ==
    t \cup {[number |-> NextNumber(s), client |-> p.client,
             status |-> ParcelStatusRegistered, address |-> p.address,
             created_at |-> p.created_at]}

\* INSERT INTO parcel (client, status, address, created_at) VALUES (...)
InsertRow(t, s, p) ==
    t \cup {[number |-> NextNumber(s), client |-> p.client,
             status |-> p.status, address |-> p.address,
             created_at |-> p.created_at]}

\* Faulty UPDATE of the status: also stamps the row with the time of the update.
UpdateStatusTouch(t, n, st) ==
    {IF r.number = n
        THEN [r EXCEPT !.status = st, !.created_at = "2024-01-02T00:00:00Z"]
        ELSE r : r \in t}

\* Faulty UPDATE of the status: the WHERE clause is missing.
UpdateStatusAll(t, n, st) == {[r EXCEPT !.status = st] : r \in t}

\* Faulty UPDATE of the status: carries the guard of the address update.
UpdateStatusGuarded(t, n, st) ==
    {IF r.number = n /\ r.status = ParcelStatusRegistered
        THEN [r EXCEPT !.status = st] ELSE r : r \in t}

\* UPDATE parcel SET status = :status WHERE number = :number
UpdateStatus(t, n, st) ==
    {IF r.number = n THEN [r EXCEPT !.status = st] ELSE r : r \in t}

\* Faulty UPDATE of the address: the guard only refuses delivered rows.
UpdateAddressUndelivered(t, n, a) ==
    {IF r.number = n /\ r.status # ParcelStatusDelivered
        THEN [r EXCEPT !.address = a] ELSE r : r \in t}

\* Faulty UPDATE of the address: the status guard is missing.
UpdateAddressUnguarded(t, n, a) ==
    {IF r.number = n THEN [r EXCEPT !.address = a] ELSE r : r \in t}

\* UPDATE parcel SET address = :address WHERE number = :number AND status = :status
UpdateAddress(t, n, a) ==
    {IF r.number = n /\ r.status = ParcelStatusRegistered
        THEN [r EXCEPT !.address = a] ELSE r : r \in t}

\* Faulty DELETE: the guard also lets sent rows go.
DeleteRowOrSent(t, n) ==
    {r \in t : ~(r.number = n /\ r.status \in {ParcelStatusRegistered, ParcelStatusSent})}

\* Faulty DELETE: the status guard is missing.
DeleteRowUnguarded(t, n) == {r \in t : r.number # n}

\* Faulty DELETE: the guard spares only delivered rows.
DeleteRowUndelivered(t, n) ==
    {r \in t : ~(r.number = n /\ r.status # ParcelStatusDelivered)}

\* DELETE FROM parcel WHERE number = :number AND status = :status
DeleteRow(t, n) ==
    {r \in t : ~(r.number = n /\ r.status = ParcelStatusRegistered)}

\* SELECT ... FROM parcel WHERE number = :number
SelectByNumber(t, n) == {r \in t : r.number = n}

\* Faulty SELECT by client: the WHERE clause is missing.
SelectAll(t, cl) == t

\* SELECT ... FROM parcel WHERE client = :client
SelectByClient(t, cl) == {r \in t : r.client = cl}

\* The orders in which a cursor may deliver the rows of a result set.
Orderings(S) ==
    {s \in [1..Cardinality(S) -> S] : \A i, j \in DOMAIN s : s[i] = s[j] => i = j}

\* ------------------------------------------------------------- operations
\* Faulty Get: the error of Scan is swallowed.
GetSwallow(t, n, fault) ==
    IF fault \/ SelectByNumber(t, n) = {} THEN [p |-> ZeroParcel, err |-> Nil]
    ELSE [p |-> CHOOSE r \in SelectByNumber(t, n) : TRUE, err |-> Nil]

\* Get: QueryRow + Scan into Parcel{}; any error of Scan is returned as is.
Get(t, n, fault) ==
    IF fault THEN [p |-> ZeroParcel, err |-> DbErr]
    ELSE IF SelectByNumber(t, n) = {} THEN [p |-> ZeroParcel, err |-> ErrNoRows]
    ELSE [p |-> CHOOSE r \in SelectByNumber(t, n) : TRUE, err |-> Nil]

\* Some caller is between calls and may make the next one.  Which caller it
\* is makes no difference to a call of one statement.
Idle == \E c \in Callers : pc[c] = "idle"

Init ==
    /\ table = {}
    /\ seq = 0
    /\ pc = [c \in Callers |-> "idle"]
    /\ res = [c \in Callers |-> Result(0, 0)]
    /\ ret = Call("none", 0, 0, 0, Nil, FALSE, 0)
    /\ movedAway = {}
    /\ stmts = 0
    /\ cursors = 0

\* Add, first half: the INSERT.  A failed Exec returns (0, err).
AddExec(c, p, fault) ==
    /\ pc[c] = "idle"
    /\ stmts' = 1
    /\ UNCHANGED cursors
    /\ seq < MaxNumber
    /\ IF fault
       THEN /\ ret' = Call("Add", 0, p, 0, DbErr, TRUE, 0)
            /\ UNCHANGED <<table, seq, pc, res, movedAway>>
       ELSE /\ table' = InsertRow(table, seq, p)
            /\ seq' = NextNumber(seq)
            /\ pc' = [pc EXCEPT ![c] = "add"]
            /\ res' = [res EXCEPT ![c] = Result(NextNumber(seq), 1)]
            /\ ret' = Call("AddExec", NextNumber(seq), p, 0, Nil, FALSE, 1)
            /\ UNCHANGED movedAway

\* Faulty return of Add: the number generated last by the table, not the one
\* in this call's Result.
AddReturnLatest(c, fault) ==
    /\ pc[c] = "add"
    /\ stmts' = 1
    /\ UNCHANGED cursors
    /\ pc' = [pc EXCEPT ![c] = "idle"]
    /\ res' = [res EXCEPT ![c] = Result(0, 0)]
    /\ ret' = IF fault
              THEN Call("Add", res[c].lastInsertId, 0, 0, DbErr, TRUE, 1)
              ELSE Call("Add", res[c].lastInsertId, 0, seq, Nil, FALSE, 1)
    /\ UNCHANGED <<table, seq, movedAway>>

\* Add, second half: res.LastInsertId() and the return; the Result is dropped.
AddReturn(c, fault) ==
    /\ pc[c] = "add"
    /\ stmts' = 1
    /\ UNCHANGED cursors
    /\ pc' = [pc EXCEPT ![c] = "idle"]
    /\ res' = [res EXCEPT ![c] = Result(0, 0)]
    /\ ret' = IF fault
              THEN Call("Add", res[c].lastInsertId, 0, 0, DbErr, TRUE, 1)
              ELSE Call("Add", res[c].lastInsertId, 0, res[c].lastInsertId,
                        Nil, FALSE, 1)
    /\ UNCHANGED <<table, seq, movedAway>>

GetCall(n, fault) ==
    /\ Idle
    /\ stmts' = 1
    /\ UNCHANGED cursors
    /\ ret' = Call("Get", n, 0, Get(table, n, fault).p,
                   Get(table, n, fault).err, fault, 0)
    /\ UNCHANGED <<table, seq, pc, res, movedAway>>

\* GetByClient: Query, then Scan row by row in the order s the cursor delivers.
\* fault names the storage call that fails, k the rows scanned before it:
\* "query" db.Query, "scan" rows.Scan of row k+1, "rows" rows.Err after the loop.
GetByClient(t, cl, fault, s, k) ==
    IF fault = "query" THEN [val |-> <<>>, err |-> DbErr]
    ELSE IF fault \in {"scan", "rows"} THEN [val |-> SubSeq(s, 1, k), err |-> DbErr]
    ELSE [val |-> s, err |-> Nil]

\* Cursors db.Query opens: one unless the query itself fails.
CursorOpened(fault) == IF fault = "query" THEN 0 ELSE 1

\* Faulty release: rows.Close() at the end of the function instead of a defer,
\* so the return on a Scan error skips it.
CursorClosedAtEnd(fault) == IF fault \in {"query", "scan"} THEN 0 ELSE 1

\* Cursors closed by the time GetByClient returns: defer rows.Close() is set up
\* as soon as db.Query has succeeded and runs on every return after it.
CursorClosed(fault) == IF fault = "query" THEN 0 ELSE 1

GetByClientCall(cl, fault) ==
    /\ Idle
    /\ stmts' = 1
    /\ cursors' = cursors + CursorOpened(fault) - CursorClosed(fault)
    /\ \E s \in Orderings(SelectByClient(table, cl)) :
       \E k \in 0..Len(s) :
          /\ fault = "scan" => k < Len(s)
          /\ fault \in {"none", "query"} => k = 0
          /\ ret' = Call("GetByClient", 0, cl,
                         GetByClient(table, cl, fault, s, k).val,
                         GetByClient(table, cl, fault, s, k).err,
                         fault # "none", 0)
    /\ UNCHANGED <<table, seq, pc, res, movedAway>>

\* The history of rows leaving status registered, after SetStatus(n, st) on t.
Departed(t, m, n, st) ==
    IF /\ st # ParcelStatusRegistered
       /\ \E r \in t : r.number = n /\ r.status = ParcelStatusRegistered
    THEN m \cup {n}
    ELSE m

\* Faulty SetStatus: an UPDATE that matches no row is reported as not found.
SetStatusStrict(n, st, fault) ==
    /\ Idle
    /\ stmts' = 1
    /\ UNCHANGED cursors
    /\ IF fault
       THEN /\ ret' = Call("SetStatus", n, st, 0, DbErr, TRUE, 0)
            /\ UNCHANGED <<table, movedAway>>
       ELSE /\ table' = UpdateStatus(table, n, st)
            /\ movedAway' = Departed(table, movedAway, n, st)
            /\ ret' = Call("SetStatus", n, st, 0,
                           IF SelectByNumber(table, n) = {} THEN ErrNoRows ELSE Nil,
                           FALSE, Cardinality(SelectByNumber(table, n)))
    /\ UNCHANGED <<seq, pc, res>>

\* SetStatus: one UPDATE; the rows-affected count of the result is dropped.
SetStatus(n, st, fault) ==
    /\ Idle
    /\ stmts' = 1
    /\ UNCHANGED cursors
    /\ IF fault
       THEN /\ ret' = Call("SetStatus", n, st, 0, DbErr, TRUE, 0)
            /\ UNCHANGED <<table, movedAway>>
       ELSE /\ table' = UpdateStatus(table, n, st)
            /\ movedAway' = Departed(table, movedAway, n, st)
            /\ ret' = Call("SetStatus", n, st, 0, Nil, FALSE,
                           Cardinality(SelectByNumber(table, n)))
    /\ UNCHANGED <<seq, pc, res>>

\* Faulty SetAddress: a failed Exec is tried once more, and that one succeeds.
SetAddressRetry(n, a, fault) ==
    /\ Idle
    /\ stmts' = IF fault THEN 2 ELSE 1
    /\ UNCHANGED cursors
    /\ table' = UpdateAddress(table, n, a)
    /\ ret' = Call("SetAddress", n, a, 0, Nil, fault,
                   Cardinality(SelectByNumber(table, n) \ DeleteRow(table, n)))
    /\ UNCHANGED <<seq, pc, res, movedAway>>

\* SetAddress: one UPDATE guarded by status = registered.
SetAddress(n, a, fault) ==
    /\ Idle
    /\ stmts' = 1
    /\ UNCHANGED cursors
    /\ IF fault
       THEN /\ ret' = Call("SetAddress", n, a, 0, DbErr, TRUE, 0)
            /\ UNCHANGED table
       ELSE /\ table' = UpdateAddress(table, n, a)
            /\ ret' = Call("SetAddress", n, a, 0, Nil, FALSE,
                           Cardinality(SelectByNumber(table, n) \ DeleteRow(table, n)))
    /\ UNCHANGED <<seq, pc, res, movedAway>>

\* Delete: one DELETE guarded by status = registered.
Delete(n, fault) ==
    /\ Idle
    /\ stmts' = 1
    /\ UNCHANGED cursors
    /\ IF fault
       THEN /\ ret' = Call("Delete", n, 0, 0, DbErr, TRUE, 0)
            /\ UNCHANGED table
       ELSE /\ table' = DeleteRow(table, n)
            /\ ret' = Call("Delete", n, 0, 0, Nil, FALSE,
                           Cardinality(table \ DeleteRow(table, n)))
    /\ UNCHANGED <<seq, pc, res, movedAway>>

Next ==
    \/ \E c \in Callers, p \in Parcel, f \in BOOLEAN : AddExec(c, p, f)
    \/ \E c \in Callers, f \in BOOLEAN : AddReturn(c, f)
    \/ \E n \in Numbers, f \in BOOLEAN : GetCall(n, f)
    \/ \E cl \in Clients, f \in {"none", "query", "scan", "rows"} :
          GetByClientCall(cl, f)
    \/ \E n \in Numbers, st \in Statuses, f \in BOOLEAN : SetStatus(n, st, f)
    \/ \E n \in Numbers, a \in Addresses, f \in BOOLEAN : SetAddress(n, a, f)
    \/ \E n \in Numbers, f \in BOOLEAN : Delete(n, f)

Spec == Init /\ [][Next]_vars

\* ------------------------------------------------------------ properties
\* The formulas below speak of the calls whose storage call did not fail
\* (ret.failed is FALSE) unless they say otherwise; a failed storage call makes
\* every operation return the storage error.

\* C1: when the INSERT of Add(p) is followed at once by the successful return
\* of that Add with number N, Get(N) on the resulting store succeeds and yields
\* Number = N and the Client, Status, Address and CreatedAt of p.
C1_RoundTrip ==
    [][(/\ ret.op = "AddExec"
        /\ ret'.op = "Add"
        /\ ret'.number = ret.number
        /\ ret'.err = Nil)
       => /\ ret'.val = ret.number
          /\ Get(table', ret'.val, FALSE) =
                [p |-> [number |-> ret'.val, client |-> ret.arg.client,
                        status |-> ret.arg.status, address |-> ret.arg.address,
                        created_at |-> ret.arg.created_at],
                 err |-> Nil]]_vars

\* An Add of a parcel that is not in status registered has returned its number
\* and the row is stored under it.
C1_Witness ==
    /\ ret.op = "Add"
    /\ ret.err = Nil
    /\ \E r \in table : r.number = ret.val /\ r.status = ParcelStatusDelivered

\* C2: Delete(n) removes row n exactly when the row exists in status
\* registered as the statement runs, and then Get(n) reports no rows; in every
\* other case Delete returns no error, the store is as before and Get(n)
\* returns what it returned before.
C2_DeletionGate ==
    [][(ret'.op = "Delete" /\ ~ret'.failed)
       => LET n == ret'.number
              gate == \E r \in table : r.number = n /\ r.status = ParcelStatusRegistered
          IN /\ ret'.err = Nil
             /\ gate => /\ table' = {r \in table : r.number # n}
                        /\ Get(table', n, FALSE).err = ErrNoRows
             /\ ~gate => /\ table' = table
                         /\ Get(table', n, FALSE) = Get(table, n, FALSE)]_vars

\* Delete was called on a stored row that is in status sent, and the row stays.
C2_Witness ==
    /\ ret.op = "Delete"
    /\ ~ret.failed
    /\ ret.affected = 0
    /\ \E r \in table : r.number = ret.number /\ r.status = ParcelStatusSent

\* C3: SetAddress(n, a) sets the address of row n to a exactly when the row
\* exists in status registered as the statement runs, and then Get(n) returns
\* address a; in every other case SetAddress returns no error and the store,
\* and with it the address Get(n) returns, is as before.
C3_AddressGate ==
    [][(ret'.op = "SetAddress" /\ ~ret'.failed)
       => LET n == ret'.number
              gate == \E r \in table : r.number = n /\ r.status = ParcelStatusRegistered
          IN /\ ret'.err = Nil
             /\ gate => /\ Get(table', n, FALSE).err = Nil
                        /\ Get(table', n, FALSE).p.address = ret'.arg
                        /\ \A r \in table' : r.number = n => r.address = ret'.arg
             /\ ~gate => /\ table' = table
                         /\ Get(table', n, FALSE) = Get(table, n, FALSE)]_vars

\* SetAddress has changed the address of a registered row.
C3_Witness ==
    /\ ret.op = "SetAddress"
    /\ ret.affected = 1
    /\ ret.arg = "new test address"
    /\ \E r \in table : /\ r.number = ret.number
                        /\ r.address = "new test address"
                        /\ r.status = ParcelStatusRegistered

\* C4 as stated: a row that SetStatus has once taken out of status registered
\* is never removed and never has its address changed by a later step.
C4_AppendOnlyForever ==
    [][\A n \in movedAway :
          \A r \in table : r.number = n =>
             \E q \in table' : q.number = n /\ q.address = r.address]_vars

\* C4 as amended: in each step, a row that is not in status registered
\* stays stored and keeps its number, client, address and creation time; only
\* its status may change.
C4_AppendOnlyWhileNotRegistered ==
    [][\A r \in table : r.status # ParcelStatusRegistered =>
          \E q \in table' : /\ q.number = r.number
                            /\ q.client = r.client
                            /\ q.address = r.address
                            /\ q.created_at = r.created_at]_vars

\* Delete or SetAddress was called on a row that SetStatus had taken out of
\* status registered and that still is out of it: nothing was affected.
C4_Witness ==
    /\ ret.op \in {"Delete", "SetAddress"}
    /\ ~ret.failed
    /\ ret.affected = 0
    /\ ret.number \in movedAway
    /\ \E r \in table : r.number = ret.number /\ r.status # ParcelStatusRegistered

\* C5: SetStatus(n, s) on a stored row, whatever its status, returns no error
\* and Get(n) then returns status s with the other fields as they were.
C5_StatusUpdate ==
    [][(/\ ret'.op = "SetStatus"
        /\ ~ret'.failed
        /\ \E r \in table : r.number = ret'.number)
       => /\ ret'.err = Nil
          /\ Get(table', ret'.number, FALSE).err = Nil
          /\ Get(table', ret'.number, FALSE).p =
                [Get(table, ret'.number, FALSE).p EXCEPT !.status = ret'.arg]]_vars

\* SetStatus has put a row that had left status registered back into it.
C5_Witness ==
    /\ ret.op = "SetStatus"
    /\ ret.affected = 1
    /\ ret.arg = ParcelStatusRegistered
    /\ ret.number \in movedAway
    /\ \E r \in table : r.number = ret.number /\ r.status = ParcelStatusRegistered

\* C6: GetByClient(c) returns the stored rows of client c, each once and as
\* stored, no row of another client, and no error; with no such row it returns
\* the empty sequence.
C6_ClientFilter ==
    (ret.op = "GetByClient" /\ ~ret.failed)
    => LET rows == {r \in table : r.client = ret.arg}
       IN /\ ret.err = Nil
          /\ Len(ret.val) = Cardinality(rows)
          /\ {ret.val[i] : i \in 1..Len(ret.val)} = rows
          /\ rows = {} => ret.val = <<>>

\* GetByClient has returned the row of its client while a row of another
\* client is stored.
C6_Witness ==
    /\ ret.op = "GetByClient"
    /\ ~ret.failed
    /\ Len(ret.val) = 1
    /\ \E r \in table : r.client # ret.arg

\* C7: Get(n) returns sql.ErrNoRows exactly when no row numbered n is stored,
\* and no error and the stored row exactly when one is.
C7_NotFound ==
    (ret.op = "Get" /\ ~ret.failed)
    => /\ ret.err = ErrNoRows <=> ~\E r \in table : r.number = ret.number
       /\ ret.err = Nil <=> \E r \in table : r.number = ret.number
       /\ ret.err = Nil => ret.val \in table /\ ret.val.number = ret.number

\* Get reported no rows for a number that Add had generated: the row was deleted.
C7_Witness ==
    /\ ret.op = "Get"
    /\ ret.err = ErrNoRows
    /\ ret.number <= seq

\* C8: SetStatus, SetAddress and Delete on a number with no stored row, and
\* SetAddress and Delete on a row not in status registered, return no error
\* and leave the store unchanged.
C8_SilentNoOp ==
    [][(/\ ret'.op \in {"SetStatus", "SetAddress", "Delete"}
        /\ ~ret'.failed
        /\ \/ ~\E r \in table : r.number = ret'.number
           \/ /\ ret'.op \in {"SetAddress", "Delete"}
              /\ \E r \in table : /\ r.number = ret'.number
                                  /\ r.status # ParcelStatusRegistered)
       => /\ ret'.err = Nil
          /\ table' = table
          /\ seq' = seq]_vars

\* SetStatus was called with a number that has no row while other rows are stored.
C8_Witness ==
    /\ ret.op = "SetStatus"
    /\ ~ret.failed
    /\ ret.affected = 0
    /\ table # {}
    /\ ~\E r \in table : r.number = ret.number

\* C9: no two stored rows share a number; an INSERT adds one row under a number
\* no stored row has and no Add in progress holds; a successful Add returns
\* the number of the row its own INSERT added, which no other Add in progress
\* holds.
C9_NumberUnique ==
    [][/\ \A r, q \in table' : r.number = q.number => r = q
       /\ ret'.op = "AddExec" =>
             \E c \in Callers :
                /\ pc[c] = "idle" /\ pc'[c] = "add"
                /\ res'[c].lastInsertId = ret'.number
                /\ \A r \in table : r.number # ret'.number
                /\ \E r \in table' : r.number = ret'.number /\ table' = table \cup {r}
                /\ \A d \in Callers \ {c} :
                      pc[d] = "add" => res[d].lastInsertId # ret'.number
       /\ (ret'.op = "Add" /\ ret'.err = Nil) =>
             \E c \in Callers :
                /\ pc[c] = "add" /\ pc'[c] = "idle"
                /\ ret'.val = res[c].lastInsertId
                /\ \A d \in Callers \ {c} :
                      pc[d] = "add" => res[d].lastInsertId # ret'.val]_vars

\* An Add has returned its number while another Add is between its INSERT and
\* its return.
C9_Witness ==
    /\ ret.op = "Add"
    /\ ret.err = Nil
    /\ \E c \in Callers : pc[c] = "add" /\ res[c].lastInsertId # ret.val

\* C10 as stated: when Add, SetStatus, SetAddress or Delete returns an error,
\* the step leaves the rows as they were and the call has added no row: no
\* row is stored under the number the call's INSERT generated.
C10_NoPartialFailure ==
    [][(/\ ret'.op \in {"Add", "SetStatus", "SetAddress", "Delete"}
        /\ ret'.err # Nil)
       => /\ table' = table
          /\ ret'.affected = 0
          /\ \A r \in table' : r.number # ret'.number \/ ret'.op # "Add"]_vars

\* C11: in every step of every interleaving, the address of a row changes
\* only by a SetAddress for that row's number, to the address of that call,
\* and only if the row is in status registered when the step starts and still
\* when it ends.
C11_AddressWriteAtomic ==
    [][\A r \in table : \A q \in table' :
          (q.number = r.number /\ q.address # r.address)
          => /\ ret'.op = "SetAddress"
             /\ ret'.number = r.number
             /\ q.address = ret'.arg
             /\ r.status = ParcelStatusRegistered
             /\ q.status = ParcelStatusRegistered]_vars

\* A SetAddress has written the address of a row that SetStatus calls had
\* taken out of status registered and put back before the write.
C11_Witness ==
    /\ ret.op = "SetAddress"
    /\ ret.affected = 1
    /\ ret.number \in movedAway
    /\ \E r \in table : r.number = ret.number /\ r.address = ret.arg

\* C12: in every step of every interleaving, a row leaves the table only by a
\* Delete for that row's number and only if the row is in status registered
\* when the step starts.
C12_DeleteAtomic ==
    [][\A r \in table :
          (~\E q \in table' : q.number = r.number)
          => /\ ret'.op = "Delete"
             /\ ret'.number = r.number
             /\ r.status = ParcelStatusRegistered]_vars

\* A Delete has removed a row that SetStatus calls had taken out of status
\* registered and put back before the statement ran.
C12_Witness ==
    /\ ret.op = "Delete"
    /\ ret.affected = 1
    /\ ret.number \in movedAway
    /\ ~\E r \in table : r.number = ret.number

\* C13: in every step, a row that stays stored keeps its client and creation
\* time under its number, and the rows inserted by Add carry the client and
\* creation time of the parcel and a number no stored row had.
C13_ImmutableFields ==
    [][/\ \A r \in table : \A q \in table' :
             q.number = r.number => /\ q.client = r.client
                                    /\ q.created_at = r.created_at
       /\ \A q \in table' :
             (~\E r \in table : r.number = q.number)
             => /\ ret'.op = "AddExec"
                /\ q.number = ret'.number
                /\ q.client = ret'.arg.client
                /\ q.created_at = ret'.arg.created_at]_vars

\* SetStatus has acted on a row of client 2000 that it had earlier taken out
\* of status registered: the row is delivered and still of client 2000.
C13_Witness ==
    /\ ret.op = "SetStatus"
    /\ ret.affected = 1
    /\ \E r \in table : /\ r.number = ret.number
                        /\ r.status = ParcelStatusDelivered
                        /\ r.number \in movedAway
                        /\ r.address = "new test address"
                        /\ r.client = 2000

\* C14: a call whose storage call failed returns the storage error, has
\* issued one statement, and its step leaves the table and the number
\* generator as they were; Add returns number 0 with the error, and an Add
\* whose INSERT failed does not go on to read the Result.
C14_ErrorNoRetry ==
    [][ret'.failed
       => /\ ret'.err = DbErr
          /\ stmts' = 1
          /\ table' = table
          /\ seq' = seq
          /\ ret'.op = "Add" => /\ ret'.val = 0
                                /\ \A c \in Callers : pc'[c] = "add" => pc[c] = "add"]_vars

\* The Exec of a SetAddress failed on a row the statement would have changed.
C14_Witness ==
    /\ ret.op = "SetAddress"
    /\ ret.failed
    /\ ret.err = DbErr
    /\ \E r \in table : /\ r.number = ret.number
                        /\ r.status = ParcelStatusRegistered
                        /\ r.address # ret.arg

\* C15: no cursor is open once GetByClient has returned, whichever way it
\* returned.
C15_CursorReleased == cursors = 0

\* GetByClient has returned an error together with the rows it had scanned
\* before the cursor failed.
C15_Witness ==
    /\ ret.op = "GetByClient"
    /\ ret.failed
    /\ ret.err = DbErr
    /\ Len(ret.val) >= 1
    /\ cursors = 0

\* C16: a step of SetStatus changes at most the status of row n, a step of
\* SetAddress at most the address of row n, a step of Delete removes at most
\* row n, the INSERT of Add adds one row and touches no other, and every
\* other step (Get, GetByClient, the return of Add) leaves the table as it was.
C16_Frame ==
    [][LET n == ret'.number
           same(r) == r.number # n => r \in table'
           kept == /\ \A r \in table : same(r)
                   /\ \A q \in table' : q.number # n => q \in table
                   /\ Cardinality(table') = Cardinality(table)
       IN /\ ret'.op = "SetStatus" =>
                /\ kept
                /\ \A r \in table : r.number = n =>
                      \E q \in table' : q = [r EXCEPT !.status = q.status]
          /\ ret'.op = "SetAddress" =>
                /\ kept
                /\ \A r \in table : r.number = n =>
                      \E q \in table' : q = [r EXCEPT !.address = q.address]
          /\ ret'.op = "Delete" =>
                /\ table' \subseteq table
                /\ \A r \in table \ table' : r.number = n
          /\ ret'.op = "AddExec" =>
                /\ table \subseteq table'
                /\ Cardinality(table' \ table) = 1
          /\ ret'.op \in {"Get", "GetByClient", "Add"} => table' = table]_vars

\* SetStatus has changed one of two stored rows; the other row is in another
\* status.
C16_Witness ==
    /\ ret.op = "SetStatus"
    /\ ret.affected = 1
    /\ \E r, q \in table : /\ r.number = ret.number
                           /\ q.number # ret.number
                           /\ r.status = ParcelStatusSent
                           /\ q.status = ParcelStatusRegistered
====
